---- MODULE Spec2Model ----
(***************************************************************************)
(* Target resolution, access policy gate and operation dispatch of the     *)
(* Salesforce MCP server.                                                   *)
(*                                                                          *)
(* JavaScript values are tagged records [t, v]: t is the typeof tag and v   *)
(* the characters of a string (a sequence of one-character strings), so     *)
(* that trim(), split() and exact comparison are computed, not assumed.     *)
(***************************************************************************)
EXTENDS Integers, Sequences, FiniteSets, TLC

VARIABLES
    policy,            \* permissions.config: [readOnly, allowedOrgs]
    cachedDefaultOrg,  \* resolveTargetOrg.ts: cachedDefaultOrg
    cacheTimestamp,    \* resolveTargetOrg.ts: cacheTimestamp
    now,               \* Date.now()
    ticks,             \* number of clock advances so far
    platformDefault,   \* the SF CLI's configured target-org
    tasks,             \* one record per handler invocation slot
    invocations,       \* number of invocations started so far
    lastCacheOp,       \* history: the last operation on the cache entry
    elicit,            \* elicitation.ts: serverInstance, the client's capabilities
                       \* and the requestConfirmation call in progress
    sfExec,            \* sfCommand.ts: one child process and the promise it settles
    channel,           \* the connection to the client: the transport, each request's
                       \* progress token, logger.ts: serverInstance and its messages
    listing            \* the orgs the CLI is authorised for and the last answer of
                       \* the org listing, the alias completion or a resource read

\* the state of the utility modules that no tool handler touches
utilVars == <<elicit, sfExec, channel, listing>>

\* the state the tool handlers work on
handlerVars == <<policy, cachedDefaultOrg, cacheTimestamp, now, ticks,
                 platformDefault, tasks, invocations, lastCacheOp>>

vars == <<policy, cachedDefaultOrg, cacheTimestamp, now, ticks,
          platformDefault, tasks, invocations, lastCacheOp, elicit, sfExec,
          channel, listing>>

-----------------------------------------------------------------------------
(* JavaScript values *)

Str(s) == [t |-> "string", v |-> s]
Undefined == [t |-> "undefined", v |-> <<>>]
Null == [t |-> "null", v |-> <<>>]
NonString == [t |-> "number", v |-> <<>>]
Zero == [t |-> "number", v |-> <<"0">>]

SP == " "

RECURSIVE TrimLeft(_)
TrimLeft(s) == IF s # <<>> /\ Head(s) = SP THEN TrimLeft(Tail(s)) ELSE s

RECURSIVE TrimRight(_)
TrimRight(s) ==
    IF s # <<>> /\ s[Len(s)] = SP THEN TrimRight(SubSeq(s, 1, Len(s) - 1)) ELSE s

\* String.prototype.trim on the characters of a string
Trim(s) == TrimRight(TrimLeft(s))

\* JavaScript truthiness of a value
Truthy(x) ==
    CASE x.t = "string" -> x.v # <<>>
      [] x.t = "number" -> x # Zero
      [] OTHER -> FALSE

\* x && x.trim() !== "" for an optional string argument
NonBlank(x) == Truthy(x) /\ x.t = "string" /\ Trim(x.v) # <<>>

\* String.prototype.split(",") on the characters of a string
RECURSIVE SplitComma(_, _)
SplitComma(s, cur) ==
    IF s = <<>> THEN <<cur>>
    ELSE IF Head(s) = "," THEN <<cur>> \o SplitComma(Tail(s), <<>>)
    ELSE SplitComma(Tail(s), Append(cur, Head(s)))

\* the org names used as inputs
prod == <<"p">>
dev == <<"d">>
sandbox1 == <<"s">>
ALL == <<"A", "L", "L">>
true == <<"t", "r", "u", "e">>

-----------------------------------------------------------------------------
(* Access policy: src/src/config/permissions.ts *)

\* mutant: the entries are kept as split, untrimmed
ParseAllowedOrgsUntrimmed(env) ==
    LET allowedOrgsEnv == IF Truthy(env) THEN env.v ELSE ALL
    IN  IF allowedOrgsEnv = ALL
        THEN [all |-> TRUE, list |-> <<>>]
        ELSE [all |-> FALSE, list |-> SplitComma(allowedOrgsEnv, <<>>)]

\* allowedOrgsEnv === "ALL" ? "ALL" : allowedOrgsEnv.split(",").map(trim)
ParseAllowedOrgs(env) ==
    LET allowedOrgsEnv == IF Truthy(env) THEN env.v ELSE ALL
    IN  IF allowedOrgsEnv = ALL
        THEN [all |-> TRUE, list |-> <<>>]
        ELSE LET parts == SplitComma(allowedOrgsEnv, <<>>)
             IN  [all |-> FALSE,
                  list |-> [i \in 1..Len(parts) |-> Trim(parts[i])]]

\* the constructor of PermissionsManager
PermissionsManager(readOnlyEnv, allowedOrgsEnv) ==
    [readOnly |-> (readOnlyEnv = Str(true)),
     allowedOrgs |-> ParseAllowedOrgs(allowedOrgsEnv)]

isReadOnly == policy.readOnly

\* mutant: the argument is trimmed before the comparison
IncludesTrimmed(list, s) == \E i \in 1..Len(list) : list[i] = Trim(s)

\* Array.prototype.includes: strict equality with one entry
Includes(list, s) == \E i \in 1..Len(list) : list[i] = s

\* isOrgAllowed under the configuration config
OrgAllowedIn(config, targetOrg) ==
    config.allowedOrgs.all \/ Includes(config.allowedOrgs.list, targetOrg)

isOrgAllowed(targetOrg) == OrgAllowedIn(policy, targetOrg)

\* the environments the server is started with
ReadOnlyEnvs == {Undefined, Str(true), Str(<<"T", "R", "U", "E">>)}
AllowedOrgsEnvs ==
    {Undefined, Str(<<>>), Str(ALL),
     Str(prod),
     Str(<<"p", ",", " ", "d">>),
     Str(<<"s", ",">>)}

-----------------------------------------------------------------------------
(* Operation handlers.  Each handler is described by what its code does, in *)
(* the order it does it: whether it awaits resolveTargetOrg, the checks it  *)
(* runs before its external call, whether a rejected external call is       *)
(* caught, and whether its success envelope carries a targetOrg field.      *)
(* Checks: "readOnly" (permissions.isReadOnly()), "allowed"                 *)
(* (permissions.isOrgAllowed(targetOrg)), "validate" (an input validation   *)
(* returning a failure envelope), "blank" (a blank required target),        *)
(* "logoutArgs", "allowedIfTarget", "allRestricted" (logout).               *)

Handler(name, mutating, resolves, checks, catches, successTarget) ==
    [name |-> name, mutating |-> mutating, resolves |-> resolves,
     checks |-> checks, catches |-> catches, successTarget |-> successTarget]

\* mutant: deploy_start without its read-only check
deploy_start_noReadOnly ==
    Handler("deploy_start", TRUE, TRUE, <<"allowed">>, FALSE, TRUE)

deploy_start ==
    Handler("deploy_start", TRUE, TRUE, <<"readOnly", "allowed">>, FALSE, TRUE)
execute_anonymous_apex ==
    Handler("execute_anonymous_apex", TRUE, TRUE, <<"readOnly", "allowed">>, FALSE, TRUE)
run_apex_tests ==
    Handler("run_apex_tests", TRUE, TRUE, <<"readOnly", "allowed">>, FALSE, TRUE)
assign_permission_set ==
    Handler("assign_permission_set", TRUE, TRUE,
            <<"readOnly", "allowed", "validate">>, FALSE, TRUE)
assign_permission_set_license ==
    Handler("assign_permission_set_license", TRUE, TRUE,
            <<"readOnly", "allowed", "validate">>, FALSE, TRUE)
create_record ==
    Handler("create_record", TRUE, TRUE, <<"validate", "allowed", "readOnly">>, TRUE, TRUE)
update_record ==
    Handler("update_record", TRUE, TRUE, <<"validate", "allowed", "readOnly">>, TRUE, TRUE)
delete_record ==
    Handler("delete_record", TRUE, TRUE, <<"allowed", "readOnly">>, TRUE, TRUE)
set_default_org ==
    Handler("set_default_org", TRUE, FALSE, <<"blank", "readOnly">>, TRUE, FALSE)
\* the get_default_org tool: no policy check, `sf config get target-org --json`
\* issued by the handler itself, every failure caught
get_default_org ==
    Handler("get_default_org", FALSE, FALSE, <<>>, TRUE, FALSE)
\* mutant: logout --all is not tied to the 'ALL' sentinel
logout_allUnrestricted ==
    Handler("logout", TRUE, FALSE,
            <<"readOnly", "logoutArgs", "allowedIfTarget">>, FALSE, FALSE)

logout ==
    Handler("logout", TRUE, FALSE,
            <<"readOnly", "logoutArgs", "allowedIfTarget", "allRestricted">>, FALSE, FALSE)
generate_class ==
    Handler("generate_class", TRUE, FALSE, <<"readOnly">>, FALSE, FALSE)
generate_trigger ==
    Handler("generate_trigger", TRUE, FALSE, <<"readOnly">>, FALSE, FALSE)
generate_component ==
    Handler("generate_component", TRUE, FALSE, <<"readOnly">>, FALSE, FALSE)
schema_generate_tab ==
    Handler("schema_generate_tab", TRUE, FALSE, <<"readOnly">>, TRUE, FALSE)
scanner_run ==
    Handler("scanner_run", TRUE, FALSE, <<"readOnly">>, TRUE, FALSE)
scanner_run_dfa ==
    Handler("scanner_run_dfa", TRUE, FALSE, <<"readOnly">>, TRUE, FALSE)
run_code_analyzer ==
    Handler("run_code_analyzer", TRUE, FALSE, <<"readOnly">>, TRUE, FALSE)

\* mutant: display_user consulting the read-only flag
display_user_readOnlyGate ==
    Handler("display_user", FALSE, TRUE, <<"readOnly", "allowed">>, FALSE, TRUE)

display_user ==
    Handler("display_user", FALSE, TRUE, <<"allowed">>, FALSE, TRUE)
list_metadata ==
    Handler("list_metadata", FALSE, TRUE, <<"allowed", "validate">>, FALSE, TRUE)
list_metadata_types ==
    Handler("list_metadata_types", FALSE, TRUE, <<"allowed">>, FALSE, TRUE)
open ==
    Handler("open", FALSE, TRUE, <<"allowed">>, FALSE, TRUE)
apex_log_list ==
    Handler("apex_log_list", FALSE, TRUE, <<"allowed">>, FALSE, TRUE)
apex_get_log ==
    Handler("apex_get_log", FALSE, TRUE, <<"allowed">>, FALSE, TRUE)
get_apex_test_results ==
    Handler("get_apex_test_results", FALSE, TRUE, <<"allowed">>, FALSE, TRUE)
get_apex_code_coverage ==
    Handler("get_apex_code_coverage", FALSE, TRUE, <<"allowed">>, FALSE, TRUE)
sobject_list ==
    Handler("sobject_list", FALSE, TRUE, <<"allowed">>, FALSE, TRUE)
sobject_describe ==
    Handler("sobject_describe", FALSE, TRUE, <<"allowed">>, FALSE, TRUE)
search_records ==
    Handler("search_records", FALSE, TRUE, <<"allowed">>, TRUE, TRUE)
open_record ==
    Handler("open_record", FALSE, TRUE, <<"validate", "allowed">>, TRUE, TRUE)
\* the four template resources: validateOrgAccess(alias), then the external calls
org_resource ==
    Handler("org_resource", FALSE, FALSE, <<"allowed">>, TRUE, FALSE)
\* the five prompts: resolveAndValidateOrg(args.targetOrg), then the external calls
org_prompt ==
    Handler("org_prompt", FALSE, TRUE, <<"allowed">>, TRUE, TRUE)

MutatingOps ==
    {deploy_start, execute_anonymous_apex, run_apex_tests, assign_permission_set,
     assign_permission_set_license, create_record, update_record, delete_record,
     set_default_org, logout, generate_class, generate_trigger, generate_component,
     schema_generate_tab, scanner_run, scanner_run_dfa, run_code_analyzer}

ReadOps ==
    {display_user, list_metadata, list_metadata_types, open, apex_log_list,
     apex_get_log, get_apex_test_results, get_apex_code_coverage, sobject_list,
     sobject_describe, search_records, open_record, org_resource, org_prompt}

AllOps == MutatingOps \cup ReadOps

\* whether the handler's checks include c
HasCheck(op, c) == \E i \in 1..Len(op.checks) : op.checks[i] = c

-----------------------------------------------------------------------------
(* Bounds and program constants *)

CACHE_TTL_MS == 30000

\* Date.now() when the process starts
StartTime == 100000
\* clock advances and invocations explored by each specification
OpsMaxTicks == 1
OpsMaxInvocations == 2
CacheMaxTicks == 2
CacheMaxInvocations == 3
RaceMaxTicks == 1
RaceMaxInvocations == 3
DefaultMaxTicks == 1
DefaultMaxInvocations == 3
EntryMaxTicks == 1
EntryMaxInvocations == 3
ConfirmMaxCalls == 2
ConfirmMaxInvocations == 1
ChannelMaxLogCalls == 2
ChannelMaxInvocations == 2
StepsMaxInvocations == 2
WaitMaxTicks == 1
WaitMaxInvocations == 2
WaitMaxCalls == 1

\* the amounts by which the clock advances between two steps
Deltas == {CACHE_TTL_MS - 1, CACHE_TTL_MS}

Tasks == {1, 2}

-----------------------------------------------------------------------------
(* Invocation records *)

NoEnvelope == [success |-> FALSE, reason |-> "none", targetOrg |-> Undefined]
NoResult == [ok |-> FALSE, value |-> Undefined]

NoOp == Handler("none", FALSE, FALSE, <<>>, FALSE, FALSE)

Idle ==
    [pc |-> "idle", op |-> NoOp, explicit |-> Undefined,
     valid |-> TRUE, all |-> FALSE, startNow |-> 0, res |-> NoResult,
     targetOrg |-> Undefined, env |-> NoEnvelope, log |-> <<>>,
     progressToken |-> Undefined, reports |-> 0, current |-> 0, sent |-> <<>>]

Event(e, arg) == [e |-> e, arg |-> arg]

\* the status payload; defaultOrg is kept in the targetOrg field
Status(defaultOrg) == [success |-> TRUE, reason |-> "ok", targetOrg |-> defaultOrg]

\* JSON.stringify({ success: false, message, ... }): no handler puts a
\* targetOrg field into a failure envelope
Failure(reason) == [success |-> FALSE, reason |-> reason, targetOrg |-> Undefined]

\* JSON.stringify({ targetOrg, ...result }) for the handlers that report the target
Success(op, target) ==
    [success |-> TRUE, reason |-> "ok",
     targetOrg |-> IF op.successTarget THEN target ELSE Undefined]

-----------------------------------------------------------------------------
(* Target resolver: src/unnamed/part_001 (utils/resolveTargetOrg.ts) *)

\* mutant: an entry exactly CACHE_TTL_MS old still counts as fresh
CacheFreshInclusive ==
    Truthy(cachedDefaultOrg) /\ now - cacheTimestamp <= CACHE_TTL_MS

\* cachedDefaultOrg && now - cacheTimestamp < CACHE_TTL_MS
CacheFresh == Truthy(cachedDefaultOrg) /\ now - cacheTimestamp < CACHE_TTL_MS

\* mutant: the explicit target is returned trimmed
resolveTargetOrgTrimmed(targetOrg) ==
    IF NonBlank(targetOrg) THEN [how |-> "explicit", value |-> Str(Trim(targetOrg.v))]
    ELSE IF CacheFresh THEN [how |-> "cache", value |-> cachedDefaultOrg]
    ELSE [how |-> "fetch", value |-> Undefined]

\* resolveTargetOrg up to its await: the explicit target, the cached default,
\* or a fetch of the configured default
resolveTargetOrg(targetOrg) ==
    IF NonBlank(targetOrg) THEN [how |-> "explicit", value |-> targetOrg]
    ELSE IF CacheFresh THEN [how |-> "cache", value |-> cachedDefaultOrg]
    ELSE [how |-> "fetch", value |-> Undefined]

\* mutant: only the value is reset
clearDefaultOrgCacheValueOnly == [value |-> Null, timestamp |-> cacheTimestamp]

\* mutant: the entry is left as it is
clearDefaultOrgCacheKeeps == [value |-> cachedDefaultOrg, timestamp |-> cacheTimestamp]

\* the cache entry after clearDefaultOrgCache()
clearDefaultOrgCache == [value |-> Null, timestamp |-> 0]

\* mutant: a whitespace-only value counts as a default
UsableNoTrim(value) == Truthy(value) /\ value.t = "string"

\* value && typeof value === "string" && value.trim() !== ""
Usable(value) == Truthy(value) /\ value.t = "string" /\ Trim(value.v) # <<>>

\* what result?.result?.[0]?.value can be when `sf config get target-org` resolves
FetchValues ==
    IF platformDefault = Undefined
    THEN {Undefined, NonString, Str(<<>>), Str(<<SP>>)}
    ELSE {platformDefault}

-----------------------------------------------------------------------------
(* Policy checks of a handler, in the handler's order *)

\* the failure a check produces, or "pass"
Check(config, c, target, explicit, valid, all) ==
    CASE c = "readOnly" -> IF config.readOnly THEN "readOnly" ELSE "pass"
      [] c = "allowed" -> IF ~OrgAllowedIn(config, target.v) THEN "denied" ELSE "pass"
      [] c = "validate" -> IF ~valid THEN "validation" ELSE "pass"
      [] c = "blank" -> IF ~NonBlank(target) THEN "validation" ELSE "pass"
      [] c = "logoutArgs" ->
            IF (~Truthy(explicit) /\ ~all) \/ (Truthy(explicit) /\ all)
            THEN "validation" ELSE "pass"
      [] c = "allowedIfTarget" ->
            IF Truthy(explicit) /\ ~OrgAllowedIn(config, explicit.v)
            THEN "denied" ELSE "pass"
      [] c = "allRestricted" ->
            IF all /\ ~config.allowedOrgs.all THEN "denied" ELSE "pass"

\* the policy calls a check makes, as log events
CheckEvents(c, target, explicit) ==
    CASE c = "readOnly" -> <<Event("isReadOnly", Undefined)>>
      [] c = "allowed" -> <<Event("isOrgAllowed", target)>>
      [] c = "allowedIfTarget" ->
            IF Truthy(explicit) THEN <<Event("isOrgAllowed", explicit)>> ELSE <<>>
      [] OTHER -> <<>>

\* run the checks from the i-th on: [out: "pass" or the failure, log: the calls made]
RECURSIVE RunChecks(_, _, _, _, _, _, _)
RunChecks(config, checks, i, target, explicit, valid, all) ==
    IF i > Len(checks) THEN [out |-> "pass", log |-> <<>>]
    ELSE LET r == Check(config, checks[i], target, explicit, valid, all)
             ev == CheckEvents(checks[i], target, explicit)
         IN  IF r # "pass" THEN [out |-> r, log |-> ev]
             ELSE LET rest == RunChecks(config, checks, i + 1, target, explicit,
                                        valid, all)
                  IN  [out |-> rest.out, log |-> ev \o rest.log]

(* Progress notifications.  A handler that reports progress creates one      *)
(* reporter per request and calls it at fixed places of its code.            *)

\* the totals the handlers pass to createProgressReporter
ProgressTotal(op) ==
    CASE op.name = "deploy_start" -> 3
      [] op.name \in {"scanner_run", "scanner_run_dfa"} -> 2
      [] OTHER -> 0

\* mutant: every notification is sent between the policy checks and the
\* external call
ReportsAtAfterPolicy(op, phase) ==
    op.name \in {"deploy_start", "scanner_run", "scanner_run_dfa"} /\ phase = "running"

\* the places where a handler calls its reporter
ReportsAt(op, phase) ==
    CASE op.name = "deploy_start" -> phase \in {"resolving", "validating", "running"}
      [] op.name \in {"scanner_run", "scanner_run_dfa"} -> phase \in {"validating", "running"}
      [] OTHER -> FALSE

\* a notifications/progress message and whether the transport took it
Notification(progressToken, progress, total, delivered) ==
    [progressToken |-> progressToken, progress |-> progress, total |-> total,
     delivered |-> delivered]

\* mutant: the reporter awaits sendNotification without a catch
reportProgressAwaited(rec) ==
    LET called == [rec EXCEPT !.reports = @ + 1]
    IN  IF ~Truthy(rec.progressToken) THEN called
        ELSE IF channel.transport # "open"
        THEN [called EXCEPT !.current = @ + 1, !.pc = "done", !.env = Failure("thrown")]
        ELSE [called EXCEPT
                 !.current = @ + 1,
                 !.sent = Append(@, Notification(rec.progressToken, rec.current + 1,
                                                 ProgressTotal(rec.op), TRUE))]

\* one call of the function createProgressReporter returned; reports counts
\* the calls, current is the closure's counter, and a rejected
\* sendNotification is swallowed
reportProgress(rec) ==
    LET called == [rec EXCEPT !.reports = @ + 1]
    IN  IF ~Truthy(rec.progressToken) THEN called
        ELSE [called EXCEPT
                 !.current = @ + 1,
                 !.sent = Append(@, Notification(rec.progressToken, rec.current + 1,
                                                 ProgressTotal(rec.op),
                                                 channel.transport = "open"))]

\* the handler's statement at one of its reporting places
Phase(op, phase, rec) == IF ReportsAt(op, phase) THEN reportProgress(rec) ELSE rec

\* the handler from the point where the target is known up to its next await:
\* either a failure envelope, or the external call is issued
AfterResolve(op, rec, target) ==
    LET validating == Phase(op, "validating", rec)
        r == RunChecks(policy, op.checks, 1, target, rec.explicit, rec.valid, rec.all)
        running == Phase(op, "running", validating)
    IN  IF validating.pc = "done" THEN validating
        ELSE IF r.out # "pass"
        THEN [validating EXCEPT !.pc = "done", !.targetOrg = target,
                                !.env = Failure(r.out), !.log = rec.log \o r.log]
        ELSE IF running.pc = "done" THEN running
        ELSE [running EXCEPT !.pc = "running", !.targetOrg = target,
                             !.log = rec.log \o r.log \o <<Event("runner", target)>>]

-----------------------------------------------------------------------------
(* Inputs of an invocation *)

ResolveInputs ==
    {Undefined, Str(<<>>), Str(<<SP>>), Str(prod), Str(<<SP, "p">>)}
SetInputs == {Str(<<>>), Str(<<SP>>), Str(dev)}
LogoutInputs == {Undefined, Str(<<>>), Str(sandbox1), Str(dev)}
AliasInputs == {Str(prod), Str(dev), Str(<<SP, "p">>)}

ExplicitInputs(op) ==
    CASE op.resolves -> ResolveInputs
      [] HasCheck(op, "blank") -> SetInputs
      [] HasCheck(op, "logoutArgs") -> LogoutInputs
      [] HasCheck(op, "allowed") -> AliasInputs
      [] OTHER -> {Undefined}

ValidInputs(op) == IF HasCheck(op, "validate") THEN BOOLEAN ELSE {TRUE}
AllInputs(op) == IF HasCheck(op, "logoutArgs") THEN BOOLEAN ELSE {FALSE}

PlatformDefaults == {Undefined, Str(sandbox1), Str(<<"s", SP>>)}

-----------------------------------------------------------------------------
(* Steps.  JavaScript runs a handler without interruption from one await to *)
(* the next, so each action is the code between two suspension points.      *)

\* a handler is invoked and runs up to its first suspension or its return
Invoke(t, op, explicit, valid, all, maxInvocations) ==
    /\ tasks[t].pc = "idle"
    /\ invocations < maxInvocations
    /\ LET rec == Phase(op, "resolving",
                        [Idle EXCEPT !.op = op, !.explicit = explicit,
                                     !.valid = valid, !.all = all,
                                     !.progressToken = channel.extra[t]])
           r == resolveTargetOrg(explicit)
       IN  tasks' = [tasks EXCEPT ![t] =
              IF rec.pc = "done" THEN rec
              ELSE IF ~op.resolves THEN AfterResolve(op, rec, explicit)
              ELSE IF r.how = "explicit" THEN AfterResolve(op, rec, r.value)
              ELSE IF r.how = "cache"
                   THEN AfterResolve(op,
                            [rec EXCEPT !.log = <<Event("cacheHit", r.value)>>],
                            r.value)
              ELSE [rec EXCEPT !.pc = "fetching", !.startNow = now,
                               !.log = <<Event("fetch", Undefined)>>]]
    /\ invocations' = invocations + 1
    /\ UNCHANGED <<policy, cachedDefaultOrg, cacheTimestamp, now, ticks,
                   platformDefault, lastCacheOp>>
    /\ UNCHANGED utilVars

\* mutant: a fetch waits for the fetch an earlier request has in flight
FetchRunQueued(t) ==
    /\ tasks[t].pc = "fetching"
    /\ \A u \in Tasks : u < t => tasks[u].pc # "fetching"
    /\ \E r \in {NoResult} \cup {[ok |-> TRUE, value |-> v] : v \in FetchValues} :
          tasks' = [tasks EXCEPT ![t].pc = "fetched", ![t].res = r]
    /\ UNCHANGED <<policy, cachedDefaultOrg, cacheTimestamp, now, ticks,
                   platformDefault, invocations, lastCacheOp>>
    /\ UNCHANGED utilVars

\* the `sf config get target-org --json` subprocess reads the configuration
FetchRun(t) ==
    /\ tasks[t].pc = "fetching"
    /\ \E r \in {NoResult} \cup {[ok |-> TRUE, value |-> v] : v \in FetchValues} :
          tasks' = [tasks EXCEPT ![t].pc = "fetched", ![t].res = r]
    /\ UNCHANGED <<policy, cachedDefaultOrg, cacheTimestamp, now, ticks,
                   platformDefault, invocations, lastCacheOp>>
    /\ UNCHANGED utilVars

\* resolveTargetOrg resumes after the fetch, and the handler after it
FetchReturn(t) ==
    /\ tasks[t].pc = "fetched"
    /\ LET rec == tasks[t]
           value == rec.res.value
       IN  IF rec.res.ok /\ Usable(value)
           THEN /\ cachedDefaultOrg' = Str(Trim(value.v))
                /\ cacheTimestamp' = rec.startNow
                /\ lastCacheOp' = "write"
                /\ tasks' = [tasks EXCEPT ![t] =
                       AfterResolve(rec.op, rec, Str(Trim(value.v)))]
           ELSE /\ tasks' = [tasks EXCEPT ![t].pc = "done",
                                          ![t].env = Failure("noTarget")]
                /\ UNCHANGED <<cachedDefaultOrg, cacheTimestamp, lastCacheOp>>
    /\ UNCHANGED <<policy, now, ticks, platformDefault, invocations>>
    /\ UNCHANGED utilVars

\* the operation's external call (CLI command, REST request or org connection) runs
RunnerRun(t) ==
    /\ tasks[t].pc = "running"
    /\ \E ok \in BOOLEAN :
       \E v \in IF ok /\ tasks[t].op.name = "get_default_org"
                THEN FetchValues ELSE {Undefined} :
          /\ tasks' = [tasks EXCEPT ![t].pc = "ran",
                                    ![t].res = [ok |-> ok, value |-> v]]
          /\ platformDefault' =
                IF ok /\ tasks[t].op.name = "set_default_org"
                THEN tasks[t].targetOrg ELSE platformDefault
    /\ UNCHANGED <<policy, cachedDefaultOrg, cacheTimestamp, now, ticks,
                   invocations, lastCacheOp>>
    /\ UNCHANGED utilVars

\* mutant: set_default_org clears the cache in a finally block
RunnerReturnClearsAlways(t) ==
    /\ tasks[t].pc = "ran"
    /\ LET rec == tasks[t]
       IN  /\ tasks' = [tasks EXCEPT ![t].pc = "done", ![t].env =
                  IF rec.res.ok /\ rec.op.name = "get_default_org"
                  THEN Status(IF Truthy(rec.res.value) THEN rec.res.value ELSE Null)
                  ELSE IF rec.res.ok THEN Success(rec.op, rec.targetOrg)
                  ELSE IF rec.op.catches THEN Failure("runnerError")
                  ELSE Failure("thrown")]
           /\ IF rec.op.name = "set_default_org"
              THEN /\ cachedDefaultOrg' = clearDefaultOrgCache.value
                   /\ cacheTimestamp' = clearDefaultOrgCache.timestamp
                   /\ lastCacheOp' = "clear"
              ELSE UNCHANGED <<cachedDefaultOrg, cacheTimestamp, lastCacheOp>>
    /\ UNCHANGED <<policy, now, ticks, platformDefault, invocations>>
    /\ UNCHANGED utilVars

\* the handler resumes after its external call and builds its envelope; the
\* get_default_org tool reports `value || null` as defaultOrg
RunnerReturn(t) ==
    /\ tasks[t].pc = "ran"
    /\ LET rec == tasks[t]
       IN  /\ tasks' = [tasks EXCEPT ![t].pc = "done", ![t].env =
                  IF rec.res.ok /\ rec.op.name = "get_default_org"
                  THEN Status(IF Truthy(rec.res.value) THEN rec.res.value ELSE Null)
                  ELSE IF rec.res.ok THEN Success(rec.op, rec.targetOrg)
                  ELSE IF rec.op.catches THEN Failure("runnerError")
                  ELSE Failure("thrown")]
           /\ IF rec.res.ok /\ rec.op.name = "set_default_org"
              THEN /\ cachedDefaultOrg' = clearDefaultOrgCache.value
                   /\ cacheTimestamp' = clearDefaultOrgCache.timestamp
                   /\ lastCacheOp' = "clear"
              ELSE UNCHANGED <<cachedDefaultOrg, cacheTimestamp, lastCacheOp>>
    /\ UNCHANGED <<policy, now, ticks, platformDefault, invocations>>
    /\ UNCHANGED utilVars

\* the envelope is handed to the protocol layer
Finish(t) ==
    /\ tasks[t].pc = "done"
    /\ tasks' = [tasks EXCEPT ![t] = Idle]
    /\ UNCHANGED <<policy, cachedDefaultOrg, cacheTimestamp, now, ticks,
                   platformDefault, invocations, lastCacheOp>>
    /\ UNCHANGED utilVars

\* time passes
Tick(d, maxTicks) ==
    /\ ticks < maxTicks
    /\ now' = now + d
    /\ ticks' = ticks + 1
    /\ UNCHANGED <<policy, cachedDefaultOrg, cacheTimestamp, platformDefault,
                   tasks, invocations, lastCacheOp>>
    /\ UNCHANGED utilVars

-----------------------------------------------------------------------------
(* getDefaultOrg and the status handlers that report it *)

\* get_server_permissions / the server_permissions resource: no policy check
\* and no external call of their own, only `await getDefaultOrg()`
get_server_permissions ==
    Handler("get_server_permissions", FALSE, FALSE, <<>>, FALSE, FALSE)

\* mutant: the failure is rethrown, as resolveTargetOrg does
getDefaultOrgThrows(res) ==
    IF res.ok /\ Usable(res.value)
    THEN [threw |-> FALSE, value |-> Str(Trim(res.value.v))]
    ELSE [threw |-> TRUE, value |-> Undefined]

\* getDefaultOrg after its await: the trimmed value, or null
getDefaultOrg(res) ==
    IF res.ok /\ Usable(res.value)
    THEN [threw |-> FALSE, value |-> Str(Trim(res.value.v))]
    ELSE [threw |-> FALSE, value |-> Null]

\* the handler up to the await inside getDefaultOrg
GetDefaultOrgCall(t, maxInvocations) ==
    /\ tasks[t].pc = "idle"
    /\ invocations < maxInvocations
    /\ LET rec == [Idle EXCEPT !.op = get_server_permissions]
       IN  tasks' = [tasks EXCEPT ![t] =
              IF CacheFresh
              THEN [rec EXCEPT !.pc = "done", !.targetOrg = cachedDefaultOrg,
                               !.env = Status(cachedDefaultOrg),
                               !.log = <<Event("cacheHit", cachedDefaultOrg)>>]
              ELSE [rec EXCEPT !.pc = "defaultFetching", !.startNow = now,
                               !.log = <<Event("fetch", Undefined)>>]]
    /\ invocations' = invocations + 1
    /\ UNCHANGED <<policy, cachedDefaultOrg, cacheTimestamp, now, ticks,
                   platformDefault, lastCacheOp>>
    /\ UNCHANGED utilVars

\* the `sf config get target-org --json` subprocess of getDefaultOrg
GetDefaultOrgFetch(t) ==
    /\ tasks[t].pc = "defaultFetching"
    /\ \E r \in {NoResult} \cup {[ok |-> TRUE, value |-> v] : v \in FetchValues} :
          tasks' = [tasks EXCEPT ![t].pc = "defaultFetched", ![t].res = r]
    /\ UNCHANGED <<policy, cachedDefaultOrg, cacheTimestamp, now, ticks,
                   platformDefault, invocations, lastCacheOp>>
    /\ UNCHANGED utilVars

\* mutant: the fetched value is returned without being cached
GetDefaultOrgReturnNoWrite(t) ==
    /\ tasks[t].pc = "defaultFetched"
    /\ LET r == getDefaultOrg(tasks[t].res)
       IN  tasks' = [tasks EXCEPT ![t].pc = "done",
                                 ![t].targetOrg = r.value,
                                 ![t].env = Status(r.value)]
    /\ UNCHANGED <<policy, cachedDefaultOrg, cacheTimestamp, now, ticks,
                   platformDefault, invocations, lastCacheOp>>
    /\ UNCHANGED utilVars

\* getDefaultOrg resumes, and the handler returns the status
GetDefaultOrgReturn(t) ==
    /\ tasks[t].pc = "defaultFetched"
    /\ LET rec == tasks[t]
           r == getDefaultOrg(rec.res)
       IN  /\ tasks' = [tasks EXCEPT ![t].pc = "done",
                                     ![t].targetOrg = r.value,
                                     ![t].env = IF r.threw THEN Failure("thrown")
                                                ELSE Status(r.value)]
           /\ IF r.value.t = "string"
              THEN /\ cachedDefaultOrg' = r.value
                   /\ cacheTimestamp' = rec.startNow
                   /\ lastCacheOp' = "write"
              ELSE UNCHANGED <<cachedDefaultOrg, cacheTimestamp, lastCacheOp>>
    /\ UNCHANGED <<policy, now, ticks, platformDefault, invocations>>
    /\ UNCHANGED utilVars

-----------------------------------------------------------------------------
(* External Runner: src/src/utils/sfCommand.ts *)

\* JSON.parse on the characters of stdout: one JSON document, whitespace
\* around it allowed; the document is kept as the characters between its braces
JSONParse(s) ==
    LET b == Trim(s)
    IN  IF Len(b) >= 2 /\ b[1] = "{" /\ b[Len(b)] = "}"
             /\ \A i \in 2..(Len(b) - 1) : b[i] \notin {"{", "}"}
        THEN [ok |-> TRUE, value |-> SubSeq(b, 2, Len(b) - 1)]
        ELSE [ok |-> FALSE, value |-> <<>>]

\* String.prototype.includes on a message kept as a sequence of phrases
Mentions(message, phrase) == \E i \in 1..Len(message) : message[i] = phrase

Resolved(value) == [settled |-> "resolved", value |-> value, reason |-> "none"]
Rejected(reason) == [settled |-> "rejected", value |-> <<>>, reason |-> reason]

\* mutant: a failed command rejects whatever it printed
executeSfCommandRejectsFailures(error, stdout, stderr) ==
    IF error # Null
    THEN IF Mentions(error.v, "command not found") \/ Mentions(error.v, "is not recognized")
         THEN Rejected("Salesforce CLI (sf) not found")
         ELSE Rejected("error")
    ELSE IF Truthy(Str(stderr)) /\ ~Mentions(stderr, "Warning")
         THEN Rejected("stderr")
    ELSE IF JSONParse(stdout).ok THEN Resolved(JSONParse(stdout).value)
    ELSE Rejected("parseError")

\* the exec callback of executeSfCommand
executeSfCommand(error, stdout, stderr) ==
    IF error # Null
    THEN IF Mentions(error.v, "command not found") \/ Mentions(error.v, "is not recognized")
         THEN Rejected("Salesforce CLI (sf) not found")
         ELSE IF Truthy(Str(stdout)) /\ Len(Trim(stdout)) > 0 /\ JSONParse(stdout).ok
         THEN Resolved(JSONParse(stdout).value)
         ELSE Rejected("error")
    ELSE IF Truthy(Str(stderr)) /\ ~Mentions(stderr, "Warning")
         THEN Rejected("stderr")
    ELSE IF JSONParse(stdout).ok THEN Resolved(JSONParse(stdout).value)
    ELSE Rejected("parseError")

\* what exec hands to the callback
ExecErrors ==
    {Null, Str(<<"Command failed">>), Str(<<"Command failed", "command not found">>),
     Str(<<"Command failed", "is not recognized">>)}
ExecStdouts ==
    {<<>>, <<SP>>, <<"x">>, <<"{", "e", "}">>, <<SP, "{", "r", "}", SP>>, <<"{", "e">>}
ExecStderrs == {<<>>, <<"Warning">>, <<"Error">>, <<"Error", "Warning">>}

Exec(error, stdout, stderr) ==
    [pc |-> "running", command |-> <<>>, error |-> error, stdout |-> stdout,
     stderr |-> stderr, out |-> Rejected("pending")]
NoExec == [Exec(Null, <<>>, <<>>) EXCEPT !.pc = "none"]

\* the child process exits and the callback settles the promise
ExecCallback ==
    /\ sfExec.pc = "running"
    /\ sfExec' = [sfExec EXCEPT !.pc = "settled",
                                !.out = executeSfCommand(sfExec.error, sfExec.stdout,
                                                         sfExec.stderr)]
    /\ UNCHANGED <<handlerVars, elicit, channel, listing>>

\* the exec callback of executeSfCommandRaw; the command is kept as its words
executeSfCommandRaw(command, error, stdout) ==
    IF error # Null
    THEN IF Mentions(error.v, "command not found") \/ Mentions(error.v, "is not recognized")
         THEN Rejected("Salesforce CLI (sf) not found")
         ELSE IF Truthy(Str(stdout))
                 /\ (Mentions(command, "scanner") \/ Mentions(command, "code-analyzer"))
         THEN Resolved(stdout)
         ELSE Rejected("error")
    ELSE Resolved(stdout)

\* the commands the scanner, the code analyzer and search_records build; a
\* search command carries the caller's query text
RawCommands ==
    {<<"sf", "scanner", "run", "--target", "src">>,
     <<"sf", "code-analyzer", "run">>,
     <<"sf", "data", "search", "--query", "FIND", "acme">>,
     <<"sf", "data", "search", "--query", "FIND", "scanner">>}

ExecRaw(command, error, stdout) ==
    [Exec(error, stdout, <<>>) EXCEPT !.pc = "runningRaw", !.command = command]

ExecRawCallback ==
    /\ sfExec.pc = "runningRaw"
    /\ sfExec' = [sfExec EXCEPT !.pc = "settledRaw",
                                !.out = executeSfCommandRaw(sfExec.command, sfExec.error,
                                                            sfExec.stdout)]
    /\ UNCHANGED <<handlerVars, elicit, channel, listing>>

-----------------------------------------------------------------------------
(* Elicitation: src/unnamed/part_001 (utils/elicitation.ts) *)

\* what elicitInput settles with: an ElicitResult (action, content?.confirm), or
\* a rejection (transport closed, timeout, result failing validation)
ElicitResult(action, confirm) == [rejected |-> FALSE, action |-> action, confirm |-> confirm]
ElicitRejected == [rejected |-> TRUE, action |-> "none", confirm |-> "undefined"]
NoElicitResult == ElicitResult("none", "undefined")
ElicitResults ==
    {ElicitResult(a, c) : a \in {"accept", "decline", "cancel"},
                          c \in {"true", "false", "undefined", "nonBoolean"}}
        \cup {ElicitRejected}

\* server.getClientCapabilities(): undefined, without or with `elicitation`
ClientCapabilities == {"undefined", "none", "elicitation"}

Confirmed == [confirmed |-> TRUE, message |-> "none"]
NotConfirmed(message) == [confirmed |-> FALSE, message |-> message]

\* serverInstance is null before initElicitation; no call in progress
NoElicitation(capabilities) ==
    [serverInstance |-> FALSE, capabilities |-> capabilities, pc |-> "idle",
     calls |-> 0, requests |-> 0, result |-> NoElicitResult, out |-> Confirmed]

\* mutant: the client's capabilities are not consulted
CanElicitUnchecked == elicit.serverInstance

\* the two early returns of requestConfirmation
CanElicit == elicit.serverInstance /\ elicit.capabilities = "elicitation"

\* mutant: any accept confirms
requestConfirmationAnyAccept(result) ==
    IF result.rejected THEN Confirmed
    ELSE IF result.action = "accept" THEN Confirmed
    ELSE IF result.action = "decline" THEN NotConfirmed("Operation declined by user")
    ELSE NotConfirmed("Operation cancelled by user")

\* mutant: a rejected elicitInput counts as a cancellation
requestConfirmationFailClosed(result) ==
    IF result.rejected THEN NotConfirmed("Operation cancelled by user")
    ELSE IF result.action = "accept" /\ result.confirm = "true" THEN Confirmed
    ELSE IF result.action = "decline" THEN NotConfirmed("Operation declined by user")
    ELSE NotConfirmed("Operation cancelled by user")

\* requestConfirmation after `await elicitInput(...)`, catch included
requestConfirmation(result) ==
    IF result.rejected THEN Confirmed
    ELSE IF result.action = "accept" /\ result.confirm = "true" THEN Confirmed
    ELSE IF result.action = "decline" THEN NotConfirmed("Operation declined by user")
    ELSE NotConfirmed("Operation cancelled by user")

\* index.ts: initElicitation(server)
InitElicitation ==
    /\ ~elicit.serverInstance
    /\ elicit.pc = "idle"
    /\ elicit' = [elicit EXCEPT !.serverInstance = TRUE]
    /\ UNCHANGED <<handlerVars, sfExec, channel, listing>>

\* requestConfirmation up to its await
RequestConfirmation(maxCalls) ==
    /\ elicit.pc = "idle"
    /\ elicit.calls < maxCalls
    /\ elicit' =
          IF CanElicit
          THEN [elicit EXCEPT !.pc = "waiting", !.calls = @ + 1, !.requests = @ + 1,
                              !.result = NoElicitResult]
          ELSE [elicit EXCEPT !.pc = "returned", !.calls = @ + 1,
                              !.result = NoElicitResult, !.out = Confirmed]
    /\ UNCHANGED <<handlerVars, sfExec, channel, listing>>

\* elicitInput settles and requestConfirmation returns
ElicitInputSettles(result) ==
    /\ elicit.pc = "waiting"
    /\ elicit' = [elicit EXCEPT !.pc = "returned", !.result = result,
                                !.out = requestConfirmation(result)]
    /\ UNCHANGED <<handlerVars, sfExec, channel, listing>>

\* the caller takes the result
ConfirmationTaken ==
    /\ elicit.pc = "returned"
    /\ elicit' = [elicit EXCEPT !.pc = "idle"]
    /\ UNCHANGED <<handlerVars, sfExec, channel, listing>>

-----------------------------------------------------------------------------
(* The client connection: logging messages and the progress tokens of the    *)
(* requests.  The handlers' denial log line (permissions.ts) goes through    *)
(* the same log function and is exercised here on its own.                   *)

\* _meta.progressToken of a request: absent, a string or a number
ProgressTokens == {Undefined, Str(<<"a">>), Zero}

\* before initLogger; logs holds, per message handed to the server, whether the
\* transport took it
NoChannel ==
    [transport |-> "open", extra |-> [t \in Tasks |-> Undefined],
     serverInstance |-> FALSE, logCalls |-> 0, logs |-> <<>>]

\* logger.log: nothing without a server instance, otherwise the message is
\* handed to the server and a rejection is swallowed
loggerLog(ch) ==
    IF ~ch.serverInstance
    THEN [ch EXCEPT !.logCalls = @ + 1]
    ELSE [ch EXCEPT !.logCalls = @ + 1, !.logs = Append(@, ch.transport = "open")]

InitLogger ==
    /\ ~channel.serverInstance
    /\ channel' = [channel EXCEPT !.serverInstance = TRUE]
    /\ UNCHANGED <<handlerVars, elicit, sfExec, listing>>

LogCall(maxCalls) ==
    /\ channel.logCalls < maxCalls
    /\ channel' = loggerLog(channel)
    /\ UNCHANGED <<handlerVars, elicit, sfExec, listing>>

\* the client goes away: every later send rejects
TransportCloses ==
    /\ channel.transport = "open"
    /\ channel' = [channel EXCEPT !.transport = "closed"]
    /\ UNCHANGED <<handlerVars, elicit, sfExec, listing>>

-----------------------------------------------------------------------------
(* Org listing, alias completion and resource access: src/src/tools/orgs.ts, *)
(* src/src/resources/resources.ts                                            *)

\* an entry of listAllOrgs(): aliases is undefined or an array of names,
\* instanceUrl is kept as the kind of host it names
NoAliases == [t |-> "undefined", v |-> <<>>]
Aliases(names) == [t |-> "array", v |-> names]
OrgAuthorization(username, aliases, isDevHub, instanceUrl) ==
    [username |-> username, aliases |-> aliases, isDevHub |-> isDevHub,
     instanceUrl |-> instanceUrl]

\* mutant: only the username is compared with the allow-list
OrgAcceptedByUsername(config, org) == OrgAllowedIn(config, org.username)

\* the callback of Array.prototype.filter (SelectSeq): the username, or some alias, is in the allow-list
OrgAccepted(config, org) ==
    \/ OrgAllowedIn(config, org.username)
    \/ /\ org.aliases.t = "array"
       /\ \E i \in 1..Len(org.aliases.v) : OrgAllowedIn(config, org.aliases.v[i])

getAccessibleOrgs(config, orgs) ==
    IF config.allowedOrgs.all THEN orgs
    ELSE LET Keep(org) == OrgAccepted(config, org) IN SelectSeq(orgs, Keep)

listConnectedSalesforceOrgs(config, orgs) ==
    LET filteredOrgs ==
            IF config.allowedOrgs.all THEN orgs
            ELSE LET Keep(org) == OrgAccepted(config, org) IN SelectSeq(orgs, Keep)
        Scratch(org) == ~org.isDevHub
        DevHub(org) == org.isDevHub
        Sandbox(org) == ~org.isDevHub /\ org.instanceUrl = "sandbox"
        Production(org) == ~org.isDevHub /\ org.instanceUrl = "salesforce"
    IN  [devHubOrgs |-> SelectSeq(filteredOrgs, DevHub),
         production |-> SelectSeq(filteredOrgs, Production),
         sandboxes |-> SelectSeq(filteredOrgs, Sandbox),
         scratchOrgs |-> SelectSeq(filteredOrgs, Scratch),
         totalOrgs |-> Len(filteredOrgs)]

\* String.prototype.toLowerCase on the characters used here
ToLowerCase(s) ==
    [i \in 1..Len(s) |-> CASE s[i] = "P" -> "p" [] s[i] = "D" -> "d" [] OTHER -> s[i]]

\* String.prototype.startsWith
StartsWith(s, prefix) ==
    Len(prefix) <= Len(s) /\ SubSeq(s, 1, Len(prefix)) = prefix

\* org.aliases?.[0] ?? org.username
Identifier(org) ==
    IF org.aliases.t = "array" /\ org.aliases.v # <<>> THEN org.aliases.v[1]
    ELSE org.username

completeAlias(config, orgs, value) ==
    LET accessible == getAccessibleOrgs(config, orgs)
        identifiers == [i \in 1..Len(accessible) |-> Identifier(accessible[i])]
        Keep(id) == StartsWith(ToLowerCase(id), ToLowerCase(value))
    IN  SelectSeq(identifiers, Keep)

\* validateOrgAccess: the alias, or the access-denied error
validateOrgAccess(config, alias) ==
    IF ~OrgAllowedIn(config, alias) THEN [threw |-> TRUE, value |-> alias]
    ELSE [threw |-> FALSE, value |-> alias]

\* the authorisations the CLI may hold
Authorizations ==
    {OrgAuthorization(<<"u">>, NoAliases, FALSE, "salesforce"),
     OrgAuthorization(<<"u">>, Aliases(<<prod>>), TRUE, "salesforce"),
     OrgAuthorization(prod, Aliases(<<<<"u">>, dev>>), FALSE, "sandbox"),
     OrgAuthorization(<<"v">>, Aliases(<<sandbox1, dev>>), FALSE, "other"),
     OrgAuthorization(<<"v">>, Aliases(<<>>), FALSE, "sandbox")}

OrgLists ==
    {<<>>} \cup {<<a>> : a \in Authorizations}
           \cup {<<a, b>> : a \in Authorizations, b \in Authorizations}

NoListing == [orgs |-> <<>>, call |-> "none", arg |-> <<>>, out |-> <<>>]

ListOrgs ==
    /\ listing' = [listing EXCEPT
                      !.call = "list_connected_salesforce_orgs", !.arg = <<>>,
                      !.out = listConnectedSalesforceOrgs(policy, listing.orgs)]
    /\ UNCHANGED <<handlerVars, elicit, sfExec, channel>>

GetAccessibleOrgs ==
    /\ listing' = [listing EXCEPT
                      !.call = "getAccessibleOrgs", !.arg = <<>>,
                      !.out = getAccessibleOrgs(policy, listing.orgs)]
    /\ UNCHANGED <<handlerVars, elicit, sfExec, channel>>

CompleteAlias(value) ==
    /\ listing' = [listing EXCEPT
                      !.call = "completeAlias", !.arg = value,
                      !.out = completeAlias(policy, listing.orgs, value)]
    /\ UNCHANGED <<handlerVars, elicit, sfExec, channel>>

\* a template resource is read with an identifier the last completion offered
ReadSuggested ==
    /\ listing.call = "completeAlias"
    /\ \E i \in 1..Len(listing.out) :
          listing' = [listing EXCEPT
                         !.call = "validateOrgAccess", !.arg = listing.out[i],
                         !.out = validateOrgAccess(policy, listing.out[i])]
    /\ UNCHANGED <<handlerVars, elicit, sfExec, channel>>

-----------------------------------------------------------------------------
(* Specifications *)

\* the utility modules as index.ts leaves them, with a client that declared no
\* elicitation capability, and no child process under observation
ElicitStart == elicit = [NoElicitation("none") EXCEPT !.serverInstance = TRUE]
ExecStart == sfExec = NoExec
ChannelStart == channel = NoChannel /\ listing = NoListing
UtilStart == ElicitStart /\ ExecStart /\ ChannelStart

\* the state after module load, for the environments in readOnlyEnvs x allowedOrgsEnvs
Start(readOnlyEnvs, allowedOrgsEnvs) ==
    /\ \E r \in readOnlyEnvs, a \in allowedOrgsEnvs : policy = PermissionsManager(r, a)
    /\ cachedDefaultOrg = Null
    /\ cacheTimestamp = 0
    /\ now = StartTime
    /\ ticks = 0
    /\ platformDefault \in PlatformDefaults
    /\ tasks = [t \in Tasks |-> Idle]
    /\ invocations = 0
    /\ lastCacheOp = "init"

Init == Start(ReadOnlyEnvs, AllowedOrgsEnvs) /\ UtilStart

\* every handler, one invocation at a time
Next ==
    \/ \E op \in AllOps : \E e \in ExplicitInputs(op), v \in ValidInputs(op),
                             a \in AllInputs(op) :
          Invoke(1, op, e, v, a, OpsMaxInvocations)
    \/ FetchRun(1)
    \/ FetchReturn(1)
    \/ RunnerRun(1)
    \/ RunnerReturn(1)
    \/ Finish(1)
    \/ \E d \in Deltas : Tick(d, OpsMaxTicks)

Spec == Init /\ [][Next]_vars

\* the resolver and its cache over several invocations in sequence
CacheOps == {deploy_start, display_user, set_default_org}

NextCache ==
    \/ \E op \in CacheOps : \E e \in ExplicitInputs(op), v \in ValidInputs(op),
                               a \in AllInputs(op) :
          Invoke(1, op, e, v, a, CacheMaxInvocations)
    \/ FetchRun(1)
    \/ FetchReturn(1)
    \/ RunnerRun(1)
    \/ RunnerReturn(1)
    \/ Finish(1)
    \/ \E d \in Deltas : Tick(d, CacheMaxTicks)

SpecCache == Init /\ [][NextCache]_vars

\* two invocations interleaved at their suspension points
RaceOps == {display_user, set_default_org}

NextRace ==
    \/ \E t \in Tasks, op \in RaceOps :
          \E e \in ExplicitInputs(op), v \in ValidInputs(op), a \in AllInputs(op) :
             Invoke(t, op, e, v, a, RaceMaxInvocations)
    \/ \E t \in Tasks : FetchRun(t)
    \/ \E t \in Tasks : FetchReturn(t)
    \/ \E t \in Tasks : RunnerRun(t)
    \/ \E t \in Tasks : RunnerReturn(t)
    \/ \E t \in Tasks : Finish(t)
    \/ \E d \in Deltas : Tick(d, RaceMaxTicks)

InitRace == Start({Undefined}, {Undefined, Str(prod)}) /\ UtilStart

SpecRace == InitRace /\ [][NextRace]_vars

\* resolveTargetOrg and getDefaultOrg callers overlapping on the shared cache
NextDefault ==
    \/ \E t \in Tasks : Invoke(t, display_user, Undefined, TRUE, FALSE, DefaultMaxInvocations)
    \/ \E t \in Tasks : Invoke(t, set_default_org, Str(dev), TRUE, FALSE, DefaultMaxInvocations)
    \/ \E t \in Tasks : GetDefaultOrgCall(t, DefaultMaxInvocations)
    \/ \E t \in Tasks : GetDefaultOrgFetch(t)
    \/ \E t \in Tasks : GetDefaultOrgReturn(t)
    \/ \E t \in Tasks : FetchRun(t)
    \/ \E t \in Tasks : FetchReturn(t)
    \/ \E t \in Tasks : RunnerRun(t)
    \/ \E t \in Tasks : RunnerReturn(t)
    \/ \E t \in Tasks : Finish(t)
    \/ \E d \in Deltas : Tick(d, DefaultMaxTicks)

InitDefault == Start({Undefined}, {Undefined}) /\ UtilStart

SpecDefault == InitDefault /\ [][NextDefault]_vars

\* every writer of the cache entry next to the get_default_org tool
NextEntry ==
    \/ \E t \in Tasks : Invoke(t, display_user, Undefined, TRUE, FALSE, EntryMaxInvocations)
    \/ \E t \in Tasks, e \in SetInputs :
          Invoke(t, set_default_org, e, TRUE, FALSE, EntryMaxInvocations)
    \/ \E t \in Tasks : Invoke(t, get_default_org, Undefined, TRUE, FALSE, EntryMaxInvocations)
    \/ \E t \in Tasks : GetDefaultOrgCall(t, EntryMaxInvocations)
    \/ \E t \in Tasks : GetDefaultOrgFetch(t)
    \/ \E t \in Tasks : GetDefaultOrgReturn(t)
    \/ \E t \in Tasks : FetchRun(t)
    \/ \E t \in Tasks : FetchReturn(t)
    \/ \E t \in Tasks : RunnerRun(t)
    \/ \E t \in Tasks : RunnerReturn(t)
    \/ \E t \in Tasks : Finish(t)
    \/ \E d \in Deltas : Tick(d, EntryMaxTicks)

InitEntry == Start({Undefined, Str(true)}, {Undefined}) /\ UtilStart

SpecEntry == InitEntry /\ [][NextEntry]_vars

\* the operations the changelog (1.6.0, MCP Elicitation) lists as asking for
\* confirmation before they run
DestructiveOps == {deploy_start, delete_record, logout}

\* requestConfirmation called on its own, before and after initElicitation, by
\* clients with and without the capability; the destructive handlers are served
\* once index.ts has initialised the server
NextConfirm ==
    \/ InitElicitation
    \/ RequestConfirmation(ConfirmMaxCalls)
    \/ \E r \in ElicitResults : ElicitInputSettles(r)
    \/ ConfirmationTaken
    \/ \E op \in DestructiveOps :
          \E e \in ExplicitInputs(op), v \in ValidInputs(op), a \in AllInputs(op) :
             elicit.serverInstance /\ Invoke(1, op, e, v, a, ConfirmMaxInvocations)
    \/ FetchRun(1)
    \/ FetchReturn(1)
    \/ RunnerRun(1)
    \/ RunnerReturn(1)
    \/ Finish(1)

InitConfirm ==
    /\ Start({Undefined}, {Undefined, Str(prod)})
    /\ \E c \in ClientCapabilities : elicit = NoElicitation(c)
    /\ ExecStart
    /\ ChannelStart

SpecConfirm == InitConfirm /\ [][NextConfirm]_vars

\* executeSfCommand on every outcome of the child process
NextExec == ExecCallback

InitExec ==
    /\ Start({Undefined}, {Undefined})
    /\ ElicitStart
    /\ ChannelStart
    /\ \E e \in ExecErrors, o \in ExecStdouts, r \in ExecStderrs : sfExec = Exec(e, o, r)

SpecExec == InitExec /\ [][NextExec]_vars

\* executeSfCommandRaw on every outcome of the child process
NextRaw == ExecRawCallback

InitRaw ==
    /\ Start({Undefined}, {Undefined})
    /\ ElicitStart
    /\ ChannelStart
    /\ \E c \in RawCommands, e \in ExecErrors, o \in ExecStdouts :
          sfExec = ExecRaw(c, e, o)

SpecRaw == InitRaw /\ [][NextRaw]_vars

\* the handlers that report progress, two requests at a time, with a client
\* that may go away at any moment; logger.log before and after initLogger
ReportingOps == {deploy_start, scanner_run}

NextChannels ==
    \/ InitLogger
    \/ LogCall(ChannelMaxLogCalls)
    \/ TransportCloses
    \/ \E t \in Tasks, op \in ReportingOps :
          channel.serverInstance
              /\ Invoke(t, op, Undefined, TRUE, FALSE, ChannelMaxInvocations)
    \/ \E t \in Tasks : FetchRun(t)
    \/ \E t \in Tasks : FetchReturn(t)
    \/ \E t \in Tasks : RunnerRun(t)
    \/ \E t \in Tasks : RunnerReturn(t)
    \/ \E t \in Tasks : Finish(t)

InitChannels ==
    /\ Start({Undefined, Str(true)}, {Undefined})
    /\ ElicitStart
    /\ ExecStart
    /\ \E e \in [Tasks -> ProgressTokens] : channel = [NoChannel EXCEPT !.extra = e]
    /\ listing = NoListing

SpecChannels == InitChannels /\ [][NextChannels]_vars

\* single invocations, one after the other, of handlers with and without a
\* reporter, by a client that asked for progress
StepsOps == {deploy_start, scanner_run, display_user, delete_record}

NextSteps ==
    \/ \E op \in StepsOps : \E e \in ExplicitInputs(op) :
          Invoke(1, op, e, TRUE, FALSE, StepsMaxInvocations)
    \/ FetchRun(1)
    \/ FetchReturn(1)
    \/ RunnerRun(1)
    \/ RunnerReturn(1)
    \/ Finish(1)

InitSteps ==
    /\ Start({Undefined, Str(true)}, {Undefined, Str(prod)})
    /\ ElicitStart
    /\ ExecStart
    /\ channel = [NoChannel EXCEPT !.extra[1] = Str(<<"a">>)]
    /\ listing = NoListing

SpecSteps == InitSteps /\ [][NextSteps]_vars

\* two requests and a confirmation round trip on one event loop.  The child
\* processes of request 2 end and its callbacks are run; nothing is assumed of
\* request 1 or of the client's answer, which may stay away for ever.
NextWait ==
    \/ \E t \in Tasks, e \in {Undefined, Str(prod)} :
          Invoke(t, deploy_start, e, TRUE, FALSE, WaitMaxInvocations)
    \/ \E t \in Tasks : FetchRun(t)
    \/ \E t \in Tasks : FetchReturn(t)
    \/ \E t \in Tasks : RunnerRun(t)
    \/ \E t \in Tasks : RunnerReturn(t)
    \/ \E t \in Tasks : Finish(t)
    \/ RequestConfirmation(WaitMaxCalls)
    \/ ElicitInputSettles(ElicitResult("decline", "undefined"))
    \/ \E d \in Deltas : Tick(d, WaitMaxTicks)

InitWait ==
    /\ Start({Undefined}, {Undefined})
    /\ elicit = [NoElicitation("elicitation") EXCEPT !.serverInstance = TRUE]
    /\ ExecStart
    /\ ChannelStart

\* the org listing, the completion and the resource read, for each set of
\* authorisations and each allow-list
NextOrgs ==
    \/ ListOrgs
    \/ GetAccessibleOrgs
    \/ \E value \in {<<>>, <<"P">>, <<"u">>, <<"d">>} : CompleteAlias(value)
    \/ ReadSuggested

InitOrgs ==
    /\ Start({Undefined}, AllowedOrgsEnvs)
    /\ ElicitStart
    /\ ExecStart
    /\ channel = NoChannel
    /\ \E orgs \in OrgLists : listing = [NoListing EXCEPT !.orgs = orgs]

SpecOrgs == InitOrgs /\ [][NextOrgs]_vars

\* the handlers at work, with process.env kept next to the configuration the
\* constructor derived from it
InitPolicy ==
    /\ \E r \in ReadOnlyEnvs, a \in AllowedOrgsEnvs :
          policy = [env |-> [READ_ONLY |-> r, ALLOWED_ORGS |-> a]]
                      @@ PermissionsManager(r, a)
    /\ cachedDefaultOrg = Null
    /\ cacheTimestamp = 0
    /\ now = StartTime
    /\ ticks = 0
    /\ platformDefault \in PlatformDefaults
    /\ tasks = [t \in Tasks |-> Idle]
    /\ invocations = 0
    /\ lastCacheOp = "init"
    /\ UtilStart

SpecPolicy == InitPolicy /\ [][NextSteps]_vars

SpecWait ==
    /\ InitWait
    /\ [][NextWait]_vars
    /\ WF_vars(FetchRun(2))
    /\ WF_vars(FetchReturn(2))
    /\ WF_vars(RunnerRun(2))
    /\ WF_vars(RunnerReturn(2))

-----------------------------------------------------------------------------
(* Properties *)

Active(t) == tasks[t].pc # "idle"
HasEvent(log, e) == \E i \in 1..Len(log) : log[i].e = e
Blank == {Undefined, Str(<<>>), Str(<<SP>>)}

\* the step in which task t calls a target-resolving handler without a usable
\* explicit target
ResolveCall(t) ==
    /\ tasks[t].pc = "idle"
    /\ tasks'[t].pc # "idle"
    /\ tasks'[t].op.resolves
    /\ tasks'[t].explicit \in Blank

\* isOrgAllowed was evaluated on the target before the external call was issued
AllowedBeforeRunner(rec) ==
    \E i, j \in 1..Len(rec.log) :
        /\ i < j
        /\ rec.log[i] = Event("isOrgAllowed", rec.targetOrg)
        /\ rec.log[j].e = "runner"

\* C1 as stated: a mutating operation invoked in read-only mode makes no
\* External Runner call of any kind (neither a default-target fetch nor the
\* operation's call) and returns a failure envelope.
C1_NoRunnerCallAtAll ==
    \A t \in Tasks :
        (Active(t) /\ tasks[t].op.mutating /\ isReadOnly) =>
            /\ ~HasEvent(tasks[t].log, "fetch")
            /\ ~HasEvent(tasks[t].log, "runner")
            /\ (tasks[t].pc = "done" => ~tasks[t].env.success)

\* C1 amended: a mutating operation invoked in read-only mode never issues its
\* own external call and ends in a failure envelope, whatever the target and the
\* allow-list; the only runner call it can make is the resolver's fetch of the
\* configured default, and only when no non-blank explicit target was supplied.
C1_ReadOnlyBlocksOperation ==
    \A t \in Tasks :
        (Active(t) /\ tasks[t].op.mutating /\ isReadOnly) =>
            /\ ~HasEvent(tasks[t].log, "runner")
            /\ tasks[t].pc \notin {"running", "ran"}
            /\ (tasks[t].pc = "done" =>
                    /\ ~tasks[t].env.success
                    /\ tasks[t].env.reason \in
                           {"readOnly", "denied", "validation", "noTarget"})
            /\ (HasEvent(tasks[t].log, "fetch") =>
                    tasks[t].op.resolves /\ tasks[t].explicit \in Blank)

C1_Witness ==
    \E t \in Tasks :
        /\ tasks[t].op = deploy_start
        /\ isReadOnly
        /\ tasks[t].pc = "done"
        /\ tasks[t].env.reason = "readOnly"
        /\ HasEvent(tasks[t].log, "fetch")

\* C2 as stated: every mutating operation that has a target evaluates
\* isOrgAllowed on it before its external call, and the call is issued only for
\* an allowed target; set_default_org included.
C2_AllowListBeforeRunner ==
    \A t \in Tasks :
        (/\ Active(t)
         /\ tasks[t].op.mutating
         /\ tasks[t].targetOrg.t = "string"
         /\ HasEvent(tasks[t].log, "runner")) =>
            /\ AllowedBeforeRunner(tasks[t])
            /\ isOrgAllowed(tasks[t].targetOrg.v)

Probes ==
    {prod, dev, sandbox1, <<SP, "p">>, <<"p", SP>>, <<"P">>, <<"p", "d">>, <<>>, ALL}

\* C4: with the 'ALL' sentinel every target is allowed; otherwise a target is
\* allowed exactly when it is equal, character for character, to one entry of the
\* allow-list: for ["p","d"], "p" and "d" are allowed and "s", " p", "p ", "P"
\* are not.
C4_ExactMatch ==
    /\ policy.allowedOrgs.all => \A s \in Probes : isOrgAllowed(s)
    /\ ~policy.allowedOrgs.all =>
          \A s \in Probes :
              isOrgAllowed(s) <=>
                  s \in {policy.allowedOrgs.list[i] :
                            i \in 1..Len(policy.allowedOrgs.list)}
    /\ policy.allowedOrgs = [all |-> FALSE, list |-> <<prod, dev>>] =>
          /\ isOrgAllowed(prod)
          /\ isOrgAllowed(dev)
          /\ ~isOrgAllowed(sandbox1)
          /\ ~isOrgAllowed(<<SP, "p">>)
          /\ ~isOrgAllowed(<<"p", SP>>)
          /\ ~isOrgAllowed(<<"P">>)
    /\ \A t \in Tasks :
          (tasks[t].pc = "done" /\ tasks[t].env.reason = "denied"
              /\ tasks[t].op.resolves) =>
              /\ ~policy.allowedOrgs.all
              /\ \A i \in 1..Len(policy.allowedOrgs.list) :
                    policy.allowedOrgs.list[i] # tasks[t].targetOrg.v

C4_Witness ==
    \E t \in Tasks :
        /\ policy.allowedOrgs = [all |-> FALSE, list |-> <<prod, dev>>]
        /\ tasks[t].targetOrg = Str(<<SP, "p">>)
        /\ tasks[t].pc = "done"
        /\ tasks[t].env.reason = "denied"

\* C5: a resolve without explicit target made while an entry exists and
\* now - cacheTimestamp < 30000 returns the cached value without a fetch; made
\* when no entry exists or now - cacheTimestamp >= 30000 it issues a fetch and
\* returns nothing from the cache.
C5_CacheTTL ==
    [][\A t \in Tasks :
          ResolveCall(t) =>
              IF cachedDefaultOrg # Null /\ now - cacheTimestamp < CACHE_TTL_MS
              THEN /\ tasks'[t].log[1] = Event("cacheHit", cachedDefaultOrg)
                   /\ tasks'[t].targetOrg = cachedDefaultOrg
                   /\ ~HasEvent(tasks'[t].log, "fetch")
                   /\ tasks'[t].pc # "fetching"
              ELSE /\ tasks'[t].pc = "fetching"
                   /\ tasks'[t].log = <<Event("fetch", Undefined)>>
                   /\ tasks'[t].startNow = now
                   /\ tasks'[t].targetOrg = Undefined]_vars

C5_Witness ==
    \E t \in Tasks :
        /\ tasks[t].pc = "fetching"
        /\ cachedDefaultOrg # Null
        /\ tasks[t].startNow - cacheTimestamp = CACHE_TTL_MS

\* C6: a resolve with an explicit target that is non-empty after trimming returns
\* exactly the supplied string, fetches nothing, reads nothing from the cache and
\* leaves the cache entry unchanged, whatever the cache state; an empty or
\* whitespace-only explicit target is resolved as if it were omitted.
C6_ExplicitPrecedence ==
    [][\A t \in Tasks :
          (tasks[t].pc = "idle" /\ tasks'[t].pc # "idle" /\ tasks'[t].op.resolves) =>
              LET x == tasks'[t].explicit
              IN  IF x.t = "string" /\ Trim(x.v) # <<>>
                  THEN /\ tasks'[t].targetOrg = x
                       /\ ~HasEvent(tasks'[t].log, "fetch")
                       /\ ~HasEvent(tasks'[t].log, "cacheHit")
                       /\ cachedDefaultOrg' = cachedDefaultOrg
                       /\ cacheTimestamp' = cacheTimestamp
                  ELSE tasks'[t].log[1].e \in {"cacheHit", "fetch"}]_vars

C6_Witness ==
    \E t \in Tasks :
        /\ tasks[t].op.resolves
        /\ tasks[t].explicit = Str(<<SP, "p">>)
        /\ tasks[t].targetOrg = Str(<<SP, "p">>)
        /\ cachedDefaultOrg # Null
        /\ now - cacheTimestamp >= CACHE_TTL_MS

\* C7: clearDefaultOrgCache resets the value to null and the timestamp to 0, and
\* the first resolve without explicit target after it (no fetch having written
\* the cache in between) issues a fetch, whatever the time elapsed.
C7_InvalidateThenResolve ==
    [][/\ (lastCacheOp' = "clear" /\ lastCacheOp # "clear") =>
              (cachedDefaultOrg' = Null /\ cacheTimestamp' = 0)
       /\ \A t \in Tasks :
              (ResolveCall(t) /\ lastCacheOp = "clear") =>
                  /\ tasks'[t].pc = "fetching"
                  /\ tasks'[t].log = <<Event("fetch", Undefined)>>]_vars

C7_Witness ==
    \E t \in Tasks :
        /\ tasks[t].pc = "fetching"
        /\ lastCacheOp = "clear"
        /\ now = StartTime

\* a set_default_org call is between issuing its CLI command and invalidating
SetInFlight ==
    \E t \in Tasks :
        tasks[t].op.name = "set_default_org" /\ tasks[t].pc \in {"running", "ran"}

\* C8 as stated: while no set_default_org is in flight, a resolve served from the
\* cache returns the platform's current default, never one read before the
\* default was changed.
C8_NoStaleDefaultAfterSet ==
    [][\A t \in Tasks :
          (/\ ResolveCall(t)
           /\ ~SetInFlight
           /\ HasEvent(tasks'[t].log, "cacheHit")) =>
              tasks'[t].targetOrg = Str(Trim(platformDefault.v))]_vars

\* C9 as stated: every envelope returned after the target was resolved carries
\* the resolved target as targetOrg.
C9_EnvelopeCarriesTarget ==
    \A t \in Tasks :
        (/\ tasks[t].pc = "done"
         /\ tasks[t].op.resolves
         /\ tasks[t].env.reason \notin {"noTarget", "thrown"}) =>
            tasks[t].env.targetOrg = tasks[t].targetOrg

\* C10: when the fetch rejects or yields a missing, non-string, empty or
\* whitespace-only value, the resolve fails with the no-target error, the cache
\* entry stays as it was, and the handler returns the failure at once, with no
\* policy check and no external call.
C10_NoTargetConfigured ==
    [][\A t \in Tasks :
          (/\ tasks[t].pc = "fetched"
           /\ tasks'[t].pc # "fetched"
           /\ \/ ~tasks[t].res.ok
              \/ tasks[t].res.value \in {Undefined, NonString, Str(<<>>), Str(<<SP>>)}) =>
              /\ tasks'[t].pc = "done"
              /\ ~tasks'[t].env.success
              /\ tasks'[t].env.reason = "noTarget"
              /\ tasks'[t].log = tasks[t].log
              /\ cachedDefaultOrg' = cachedDefaultOrg
              /\ cacheTimestamp' = cacheTimestamp]_vars

C10_Witness ==
    \E t \in Tasks :
        /\ tasks[t].pc = "done"
        /\ tasks[t].env.reason = "noTarget"
        /\ tasks[t].log = <<Event("fetch", Undefined)>>
        /\ cachedDefaultOrg # Null

\* the step in which task t calls a handler that awaits getDefaultOrg
GetDefaultCall(t) ==
    tasks[t].pc = "idle" /\ tasks'[t].op = get_server_permissions

\* C11: getDefaultOrg serves a fresh entry of the shared cache without a fetch
\* and fetches otherwise; a usable fetched value is trimmed, returned and written
\* to the shared entry with the call's start time; when the fetch rejects or
\* yields no usable value it returns null, the handler still resolves, and the
\* cache is untouched.  resolveTargetOrg serves whatever fresh entry is there.
C11_GetDefaultOrg ==
    [][\A t \in Tasks :
          /\ GetDefaultCall(t) =>
                IF cachedDefaultOrg # Null /\ now - cacheTimestamp < CACHE_TTL_MS
                THEN /\ tasks'[t].pc = "done"
                     /\ tasks'[t].env = Status(cachedDefaultOrg)
                     /\ ~HasEvent(tasks'[t].log, "fetch")
                ELSE /\ tasks'[t].pc = "defaultFetching"
                     /\ tasks'[t].startNow = now
          /\ (tasks[t].pc = "defaultFetched" /\ tasks'[t].pc # "defaultFetched") =>
                LET v == tasks[t].res.value
                IN  /\ tasks'[t].pc = "done"
                    /\ tasks'[t].env.success
                    /\ tasks'[t].env.reason # "thrown"
                    /\ IF tasks[t].res.ok /\ v.t = "string" /\ Trim(v.v) # <<>>
                       THEN /\ tasks'[t].env.targetOrg = Str(Trim(v.v))
                            /\ cachedDefaultOrg' = Str(Trim(v.v))
                            /\ cacheTimestamp' = tasks[t].startNow
                       ELSE /\ tasks'[t].env.targetOrg = Null
                            /\ cachedDefaultOrg' = cachedDefaultOrg
                            /\ cacheTimestamp' = cacheTimestamp
          /\ (ResolveCall(t) /\ cachedDefaultOrg # Null
                /\ now - cacheTimestamp < CACHE_TTL_MS) =>
                tasks'[t].targetOrg = cachedDefaultOrg]_vars

C11_Witness ==
    \E t \in Tasks :
        /\ tasks[t].op = get_server_permissions
        /\ tasks[t].pc = "done"
        /\ tasks[t].log = <<Event("fetch", Undefined)>>
        /\ ~tasks[t].res.ok
        /\ tasks[t].env = Status(Null)
        /\ cachedDefaultOrg = Null

\* C12: when no server instance was initialised or the client's capabilities do
\* not include elicitation, requestConfirmation returns {confirmed: true} at once
\* and sends no elicitation request; and no step of a destructive handler sends
\* one, so with allow-all and read-only off the handler is never stopped for
\* want of a confirmation.
C12_NoCapabilityNoRoundTrip ==
    [][/\ (elicit.pc = "idle" /\ elicit'.calls = elicit.calls + 1
             /\ ~(elicit.serverInstance /\ elicit.capabilities = "elicitation")) =>
              /\ elicit'.pc = "returned"
              /\ elicit'.out = [confirmed |-> TRUE, message |-> "none"]
              /\ elicit'.requests = elicit.requests
       /\ \A t \in Tasks :
              (tasks'[t] # tasks[t] /\ tasks'[t].op \in DestructiveOps) =>
                  /\ elicit' = elicit
                  /\ (tasks'[t].pc = "done" /\ policy.allowedOrgs.all
                        /\ ~policy.readOnly) =>
                         tasks'[t].env.reason \in
                             {"ok", "runnerError", "thrown", "validation", "noTarget"}]_vars

C12_Witness ==
    /\ elicit.pc = "returned"
    /\ elicit.serverInstance
    /\ elicit.capabilities = "none"
    /\ elicit.requests = 0
    /\ elicit.out = Confirmed

\* C13: a response to the elicitation request is mapped to exactly one result:
\* accept with confirm = true gives confirmed; decline gives not confirmed,
\* 'declined by user'; any other response (cancel, accept with confirm false,
\* missing or not a boolean) gives not confirmed, 'cancelled by user'.
C13_ResponseMapping ==
    [][(elicit.pc = "waiting" /\ elicit'.pc # "waiting" /\ ~elicit'.result.rejected) =>
          LET r == elicit'.result
          IN  /\ elicit'.pc = "returned"
              /\ elicit'.requests = elicit.requests
              /\ elicit'.out =
                    CASE r.action = "accept" /\ r.confirm = "true" ->
                             [confirmed |-> TRUE, message |-> "none"]
                      [] r.action = "decline" ->
                             [confirmed |-> FALSE,
                              message |-> "Operation declined by user"]
                      [] OTHER ->
                             [confirmed |-> FALSE,
                              message |-> "Operation cancelled by user"]]_vars

C13_Witness ==
    /\ elicit.pc = "returned"
    /\ elicit.result = ElicitResult("accept", "false")
    /\ elicit.out = NotConfirmed("Operation cancelled by user")

\* C14: when the elicitation request rejects, requestConfirmation still returns,
\* with {confirmed: true}; an explicit decline returns {confirmed: false}.
C14_FailOpen ==
    [][(elicit.pc = "waiting" /\ elicit'.pc # "waiting") =>
          /\ elicit'.pc = "returned"
          /\ elicit'.result.rejected =>
                elicit'.out = [confirmed |-> TRUE, message |-> "none"]
          /\ (~elicit'.result.rejected /\ elicit'.result.action = "decline") =>
                ~elicit'.out.confirmed]_vars

C14_Witness ==
    /\ elicit.pc = "returned"
    /\ elicit.requests > 0
    /\ elicit.result = ElicitRejected
    /\ elicit.out = Confirmed

\* C15 as stated: when the client supports elicitation, a destructive operation
\* issues its external call only after a confirmation was requested.
C15_ConfirmBeforeRunner ==
    \A t \in Tasks :
        (/\ tasks[t].op \in DestructiveOps
         /\ HasEvent(tasks[t].log, "runner")
         /\ elicit.serverInstance
         /\ elicit.capabilities = "elicitation") =>
            \E i, j \in 1..Len(tasks[t].log) :
                i < j /\ tasks[t].log[i].e = "elicit" /\ tasks[t].log[j].e = "runner"

\* C16 as stated: every handler invocation ends in a well-formed envelope; a
\* rejected external call is reported as a failure envelope, never as a
\* rejection of the handler's own promise.
C16_NoExceptionEscapes ==
    \A t \in Tasks :
        tasks[t].pc = "done" =>
            /\ tasks[t].env.reason # "thrown"
            /\ (tasks[t].res.ok = FALSE /\ HasEvent(tasks[t].log, "runner")) =>
                   (~tasks[t].env.success /\ tasks[t].env.reason = "runnerError")

\* C17: executeSfCommand resolves with the parsed document when the command
\* failed (CLI found) and stdout is non-blank valid JSON, and when it succeeded
\* with stderr empty or containing "Warning" and valid JSON on stdout; in every other
\* case it rejects: CLI not found, failure with blank or non-JSON stdout, success
\* with non-warning stderr or non-JSON stdout.
C17_StructuredFailureDetail ==
    sfExec.pc = "settled" =>
        LET validJson == sfExec.stdout \in {<<"{", "e", "}">>, <<SP, "{", "r", "}", SP>>}
            document == IF sfExec.stdout = <<"{", "e", "}">> THEN <<"e">> ELSE <<"r">>
            notFound == sfExec.error \in {Str(<<"Command failed", "command not found">>),
                                         Str(<<"Command failed", "is not recognized">>)}
            noErrorText == sfExec.stderr \in {<<>>, <<"Warning">>, <<"Error", "Warning">>}
            resolves == IF sfExec.error # Null THEN ~notFound /\ validJson
                        ELSE noErrorText /\ validJson
        IN  /\ sfExec.out.settled \in {"resolved", "rejected"}
            /\ sfExec.out.settled = "resolved" <=> resolves
            /\ resolves => sfExec.out.value = document
            /\ notFound => sfExec.out.reason = "Salesforce CLI (sf) not found"

C17_Witness ==
    /\ sfExec.pc = "settled"
    /\ sfExec.error = Str(<<"Command failed">>)
    /\ sfExec.stdout = <<"{", "e", "}">>
    /\ sfExec.out = Resolved(<<"e">>)

\* C18 as stated: a reporter whose request carries a progress token emits, on
\* its k-th call, exactly one notification with progress k, the token and the
\* total, in call order and counted per reporter; a reporter whose request
\* carries no token emits nothing.
C18_TokenEmitsEveryCall ==
    \A t \in Tasks :
        LET rec == tasks[t]
        IN  /\ rec.progressToken = Undefined => rec.sent = <<>>
            /\ rec.progressToken # Undefined =>
                  /\ Len(rec.sent) = rec.reports
                  /\ \A k \in 1..Len(rec.sent) :
                        /\ rec.sent[k].progress = k
                        /\ rec.sent[k].progressToken = rec.progressToken
                        /\ rec.sent[k].total = ProgressTotal(rec.op)

\* C19: whatever becomes of the deliveries, a reporting handler makes all its
\* reporter calls, reaches its external call exactly when its checks pass, and
\* ends with the envelope that its checks and the external call's outcome
\* determine; a log call hands over a message only once the logger has a
\* server instance, and at most one per call.
C19_FireAndForget ==
    /\ \A t \in Tasks :
          LET rec == tasks[t]
              r == RunChecks(policy, rec.op.checks, 1, rec.targetOrg,
                             rec.explicit, rec.valid, rec.all)
              called == HasEvent(rec.log, "runner")
          IN  rec.op \in ReportingOps =>
                 /\ rec.pc \in {"running", "ran"} =>
                       /\ r.out = "pass"
                       /\ called
                       /\ rec.reports = ProgressTotal(rec.op)
                 /\ rec.pc = "done" =>
                       \/ /\ rec.env = Failure("noTarget")
                          /\ ~called
                       \/ /\ r.out # "pass"
                          /\ rec.env = Failure(r.out)
                          /\ ~called
                          /\ rec.reports = ProgressTotal(rec.op) - 1
                       \/ /\ r.out = "pass"
                          /\ called
                          /\ rec.reports = ProgressTotal(rec.op)
                          /\ rec.env = IF rec.res.ok
                                       THEN Success(rec.op, rec.targetOrg)
                                       ELSE IF rec.op.catches
                                            THEN Failure("runnerError")
                                            ELSE Failure("thrown")
    /\ ~channel.serverInstance => channel.logs = <<>>
    /\ Len(channel.logs) <= channel.logCalls

\* a deployment completed although the client had gone away after the first
\* notification, and a log message was rejected as well; an earlier log call
\* found no server instance
C19_Witness ==
    /\ channel.transport = "closed"
    /\ channel.logCalls = 2
    /\ channel.logs = <<FALSE>>
    /\ \E t \in Tasks :
          /\ tasks[t].pc = "done"
          /\ tasks[t].op = deploy_start
          /\ tasks[t].env.success
          /\ Len(tasks[t].sent) = 3
          /\ tasks[t].sent[1].delivered
          /\ ~tasks[t].sent[3].delivered

\* the step in which task t resumes after its fetch of the configured default
FetchReturned(t) ==
    /\ tasks[t].pc \in {"fetched", "defaultFetched"}
    /\ tasks'[t].pc # tasks[t].pc

\* task t obtained its target from a fetch of its own that produced a usable value
FetchedOwn(t) ==
    /\ tasks[t].pc \notin {"idle", "fetching", "defaultFetching", "fetched", "defaultFetched"}
    /\ tasks[t].log # <<>>
    /\ tasks[t].log[1].e = "fetch"
    /\ tasks[t].targetOrg.t = "string"

\* C20: a resolveTargetOrg or getDefaultOrg call without explicit target that
\* finds the cache empty or stale starts a fetch of its own, also while other
\* fetches are in flight; on resuming it returns the value of its own fetch and,
\* when that value is usable, overwrites the cache entry with it and with its
\* own start time, so that the entry is the one of the fetch that completed
\* last; a failed fetch leaves the entry alone; and as long as the platform
\* default was not changed, all calls whose fetch succeeded hold the same value.
C20_OverlappingFetches ==
    [][/\ \A t \in Tasks :
             /\ ((ResolveCall(t) \/ GetDefaultCall(t))
                    /\ (cachedDefaultOrg = Null \/ now - cacheTimestamp >= CACHE_TTL_MS)) =>
                   /\ tasks'[t].pc \in {"fetching", "defaultFetching"}
                   /\ tasks'[t].log = <<Event("fetch", Undefined)>>
                   /\ tasks'[t].startNow = now
             /\ FetchReturned(t) =>
                   LET v == tasks[t].res.value
                   IN  IF tasks[t].res.ok /\ v.t = "string" /\ Trim(v.v) # <<>>
                       THEN /\ tasks'[t].targetOrg = Str(Trim(v.v))
                            /\ cachedDefaultOrg' = Str(Trim(v.v))
                            /\ cacheTimestamp' = tasks[t].startNow
                       ELSE /\ tasks'[t].targetOrg \in {Undefined, Null}
                            /\ cachedDefaultOrg' = cachedDefaultOrg
                            /\ cacheTimestamp' = cacheTimestamp
       /\ platformDefault # Str(dev) =>
             \A t, u \in Tasks :
                 (FetchedOwn(t) /\ FetchedOwn(u)) => tasks[t].targetOrg = tasks[u].targetOrg]_vars

\* getDefaultOrg started first and completed last: its fetch overlapped the one
\* of a resolveTargetOrg call, both returned their own value, and the entry
\* carries the start time of the call that completed last
C20_Witness ==
    \E t, u \in Tasks :
        /\ tasks[t].op = get_server_permissions
        /\ tasks[u].op = display_user
        /\ FetchedOwn(t)
        /\ FetchedOwn(u)
        /\ tasks[t].pc = "done"
        /\ tasks[t].startNow < tasks[u].startNow
        /\ cacheTimestamp = tasks[t].startNow
        /\ cachedDefaultOrg = tasks[t].targetOrg

\* the dispatcher step a logged call belongs to: 1 target resolution, 2 policy
\* check, 3 external call
StepOf(e) ==
    CASE e \in {"fetch", "cacheHit"} -> 1
      [] e \in {"isReadOnly", "isOrgAllowed"} -> 2
      [] OTHER -> 3

\* the calls of an invocation are in dispatcher order, the external call is
\* made at most once and last, and a failed step ends the invocation: after a
\* failed resolution no policy check, after a failed check no later check and no
\* external call
OrderedSteps(rec) ==
    /\ \A i, j \in 1..Len(rec.log) :
          i < j => /\ StepOf(rec.log[i].e) <= StepOf(rec.log[j].e)
                   /\ rec.log[i].e # "runner"
    /\ (rec.pc = "done" /\ rec.env.reason = "noTarget") =>
          \A i \in 1..Len(rec.log) : StepOf(rec.log[i].e) = 1
    /\ (rec.pc = "done" /\ rec.env.reason = "readOnly") =>
          rec.log[Len(rec.log)].e = "isReadOnly"
    /\ (rec.pc = "done" /\ rec.env.reason = "denied") =>
          rec.log[Len(rec.log)].e = "isOrgAllowed"
    /\ (rec.pc = "done" /\ HasEvent(rec.log, "runner")) =>
          rec.env.reason \in {"ok", "runnerError", "thrown"}
    /\ rec.pc \in {"running", "ran"} => HasEvent(rec.log, "runner")

\* the notifications sent are numbered 1, 2, ... in the order of the calls
OrderedPhases(rec) ==
    /\ Len(rec.sent) = rec.reports
    /\ \A k \in 1..Len(rec.sent) : rec.sent[k].progress = k

\* the number of phases an invocation has entered: resolving, then validating
\* once the target is known, then running once the checks have passed
PhasesEntered(rec) ==
    LET known == rec.pc \notin {"fetching", "fetched"} /\ rec.env.reason # "noTarget"
        reporter == ProgressTotal(rec.op) > 0
    IN  (IF rec.op.name = "deploy_start" THEN 1 ELSE 0)
        + (IF known /\ reporter THEN 1 ELSE 0)
        + (IF HasEvent(rec.log, "runner") /\ reporter THEN 1 ELSE 0)

C22_SuspensionIsLocal ==
    (tasks[2].pc \notin {"idle", "done"}) ~> (tasks[2].pc = "done")

\* request 1 is still waiting for its fetch and a confirmation is unanswered,
\* while request 2, which started its own fetch later, has resolved, passed the
\* checks, made its external call and returned
C22_Witness ==
    /\ tasks[1].pc = "fetching"
    /\ elicit.pc = "waiting"
    /\ tasks[2].pc = "done"
    /\ tasks[2].env.success
    /\ tasks[2].log[1].e = "fetch"
    /\ HasEvent(tasks[2].log, "runner")
    /\ tasks[1].startNow < tasks[2].startNow

Range(seq) == {seq[i] : i \in 1..Len(seq)}

\* the names an authorised org is known by
NamesOf(org) ==
    {org.username} \cup (IF org.aliases.t = "array" THEN Range(org.aliases.v) ELSE {})

\* the positions of the authorised orgs the allow-list admits by some name
Admitted ==
    {i \in 1..Len(listing.orgs) :
        \/ policy.allowedOrgs.all
        \/ NamesOf(listing.orgs[i]) \cap Range(policy.allowedOrgs.list) # {}}

C25_CompletionsAreAllowed ==
    /\ listing.call = "completeAlias" =>
          \A id \in Range(listing.out) : OrgAllowedIn(policy, id)
    /\ listing.call = "validateOrgAccess" => ~listing.out.threw

\* C24 as stated: executeSfCommandRaw resolves with stdout on a zero exit; on
\* a non-zero exit it resolves with stdout only for a scanner or code-analyzer
\* command whose stdout is non-empty; every other command rejects, with the
\* CLI-not-found error when the CLI is missing and with the original error
\* otherwise.
C24_RawToleratesFindingsOnly ==
    sfExec.pc = "settledRaw" =>
        LET failed == sfExec.error # Null
            notFound == failed /\ (Mentions(sfExec.error.v, "command not found")
                                     \/ Mentions(sfExec.error.v, "is not recognized"))
            findings == sfExec.command[2] \in {"scanner", "code-analyzer"}
        IN  /\ ~failed => sfExec.out = Resolved(sfExec.stdout)
            /\ notFound => sfExec.out = Rejected("Salesforce CLI (sf) not found")
            /\ (failed /\ ~notFound) =>
                  sfExec.out = IF findings /\ sfExec.stdout # <<>>
                               THEN Resolved(sfExec.stdout)
                               ELSE Rejected("error")

\* C26: the logout handler issues its CLI command exactly when the server is
\* not read-only, exactly one of targetOrg and all is given, a given targetOrg
\* is an entry of the allow-list (or the list is 'ALL'), and all is used only
\* under 'ALL'; the command then names the given target; otherwise the handler
\* ends with a failure envelope and no command.
C26_LogoutGate ==
    \A t \in Tasks :
        (Active(t) /\ tasks[t].op.name = "logout") =>
            LET rec == tasks[t]
                given == rec.explicit.t = "string" /\ rec.explicit.v # <<>>
                permitted ==
                    /\ ~policy.readOnly
                    /\ given # rec.all
                    /\ given => (policy.allowedOrgs.all
                                    \/ rec.explicit.v \in Range(policy.allowedOrgs.list))
                    /\ rec.all => policy.allowedOrgs.all
            IN  /\ HasEvent(rec.log, "runner") <=> permitted
                /\ permitted => rec.log[Len(rec.log)] = Event("runner", rec.explicit)
                /\ ~permitted => (rec.pc = "done" /\ ~rec.env.success)

\* logout --all on a server restricted to some orgs is refused without a command
C26_Witness ==
    \E t \in Tasks :
        /\ tasks[t].op.name = "logout"
        /\ tasks[t].pc = "done"
        /\ tasks[t].all
        /\ ~Truthy(tasks[t].explicit)
        /\ ~policy.readOnly
        /\ ~policy.allowedOrgs.all
        /\ tasks[t].env = Failure("denied")
        /\ ~HasEvent(tasks[t].log, "runner")

\* the characters of s without commas and blanks
RECURSIVE Strip(_)
Strip(s) ==
    IF s = <<>> THEN <<>>
    ELSE (IF Head(s) \in {",", SP} THEN <<>> ELSE <<Head(s)>>) \o Strip(Tail(s))

RECURSIVE Flatten(_)
Flatten(list) == IF list = <<>> THEN <<>> ELSE Head(list) \o Flatten(Tail(list))

\* the configuration is the one the environment prescribes: read-only for
\* exactly "true"; 'ALL' for an unset, empty or "ALL" list; otherwise one entry
\* per comma-separated part, without surrounding blanks
PolicyFollowsEnv ==
    LET readOnlyEnv == policy.env.READ_ONLY
        allowedEnv == policy.env.ALLOWED_ORGS
        list == policy.allowedOrgs.list
        commas == {i \in 1..Len(allowedEnv.v) : allowedEnv.v[i] = ","}
    IN  /\ policy.readOnly <=> readOnlyEnv = Str(<<"t", "r", "u", "e">>)
        /\ policy.allowedOrgs.all <=>
              allowedEnv \in {Undefined, Str(<<>>), Str(<<"A", "L", "L">>)}
        /\ ~policy.allowedOrgs.all =>
              /\ Len(list) = Cardinality(commas) + 1
              /\ Flatten(list) = Strip(allowedEnv.v)
              /\ \A i \in 1..Len(list) :
                    list[i] = <<>> \/ (list[i][1] # SP /\ list[i][Len(list[i])] # SP)

\* C27: the access policy is the one the environment prescribes at start, and
\* no step of any operation changes it, so isReadOnly() and getAllowedOrgs()
\* answer the same in every state.
C27_PolicyFixedAtStart ==
    [][PolicyFollowsEnv /\ policy' = policy]_vars

\* after an operation has run, READ_ONLY=TRUE still means not read-only and
\* ALLOWED_ORGS="p, d" still means the two entries p and d
C27_Witness ==
    /\ tasks[1].pc = "done"
    /\ policy.env.READ_ONLY = Str(<<"T", "R", "U", "E">>)
    /\ ~policy.readOnly
    /\ policy.env.ALLOWED_ORGS = Str(<<"p", ",", " ", "d">>)
    /\ policy.allowedOrgs.list = <<prod, dev>>

\* C28 as stated: whenever an operation that takes a target issues its
\* external call, the target of the call is the very string isOrgAllowed
\* accepted earlier in the invocation, whether it was explicit, cached or
\* fetched, and the success envelope reports that same string as targetOrg.
C28_RunnerTargetIsCheckedTarget ==
    \A t \in Tasks :
        LET rec == tasks[t]
            n == Len(rec.log)
        IN  (Active(t) /\ n > 0 /\ rec.log[n].e = "runner" /\ Truthy(rec.log[n].arg)) =>
                /\ \E i \in 1..(n - 1) : rec.log[i] = Event("isOrgAllowed", rec.log[n].arg)
                /\ isOrgAllowed(rec.log[n].arg.v)
                /\ (rec.pc = "done" /\ rec.env.success /\ rec.op.resolves) =>
                       rec.env.targetOrg = rec.log[n].arg

\* a cache entry as the module keeps it: null with timestamp 0, or a non-empty
\* string without surrounding blanks with a timestamp not after the clock
WellFormedEntry(value, timestamp, time) ==
    /\ value = Null \/ (value.t = "string" /\ value.v # <<>> /\ Trim(value.v) = value.v)
    /\ value = Null => timestamp = 0
    /\ value # Null => (StartTime <= timestamp /\ timestamp <= time)

\* the step in which the resumed fetch of task t stores its value
SuccessfulFetchStores(t) ==
    /\ FetchReturned(t)
    /\ tasks[t].res.ok
    /\ Usable(tasks[t].res.value)
    /\ cachedDefaultOrg' = Str(Trim(tasks[t].res.value.v))
    /\ cacheTimestamp' = tasks[t].startNow

\* the step in which set_default_org, resumed after its command, clears the entry
SetDefaultOrgClears(t) ==
    /\ tasks[t].op.name = "set_default_org"
    /\ tasks[t].pc = "ran"
    /\ tasks'[t].pc = "done"
    /\ cachedDefaultOrg' = Null
    /\ cacheTimestamp' = 0

\* C29: the cache entry is well-formed in every reachable state (null with
\* timestamp 0, or a trimmed non-empty string whose timestamp is the start time
\* of the call that wrote it and never later than the clock), and a step
\* changes either variable only when a successful fetch stores its value or
\* clearDefaultOrgCache runs.
C29_CacheWellFormed ==
    [][/\ WellFormedEntry(cachedDefaultOrg, cacheTimestamp, now)
       /\ WellFormedEntry(cachedDefaultOrg', cacheTimestamp', now')
       /\ (cachedDefaultOrg' # cachedDefaultOrg \/ cacheTimestamp' # cacheTimestamp) =>
              \E t \in Tasks : SuccessfulFetchStores(t) \/ SetDefaultOrgClears(t)]_vars

\* a padded default was stored trimmed, with the start time of a call that
\* began before the clock advanced
C29_Witness ==
    /\ platformDefault = Str(<<"s", SP>>)
    /\ cachedDefaultOrg = Str(sandbox1)
    /\ cacheTimestamp = StartTime
    /\ now > StartTime
    /\ lastCacheOp = "write"

\* task t is inside an invocation of the named operation
Running(t, name) == tasks[t].pc # "idle" /\ tasks[t].op.name = name

\* C30: set_default_org clears the cache entry only in the step that resumes
\* after its CLI call returned without rejecting; with a blank target, in
\* read-only mode, or when the CLI call rejects, none of its steps touches the
\* entry, and in the first two cases it never issues the call; the
\* get_default_org tool issues its CLI call in every invocation, whatever the
\* cache holds, reports what that call returned, and none of its steps
\* changes the entry.
C30_SetClearsAfterSuccessOnly ==
    [][\A t \in Tasks :
          /\ (Running(t, "set_default_org") \/ tasks'[t].op.name = "set_default_org") =>
                /\ (tasks'[t] # tasks[t]
                       /\ (cachedDefaultOrg' # cachedDefaultOrg
                              \/ cacheTimestamp' # cacheTimestamp
                              \/ lastCacheOp' # lastCacheOp)) =>
                      /\ tasks[t].pc = "ran"
                      /\ tasks[t].res.ok
                      /\ cachedDefaultOrg' = Null /\ cacheTimestamp' = 0
                /\ (tasks[t].pc = "ran" /\ tasks'[t].pc = "done" /\ tasks[t].res.ok) =>
                      (cachedDefaultOrg' = Null /\ cacheTimestamp' = 0)
                /\ (tasks[t].pc = "idle" /\ tasks'[t].pc # "idle"
                       /\ (~NonBlank(tasks'[t].explicit) \/ policy.readOnly)) =>
                      /\ tasks'[t].pc = "done"
                      /\ ~tasks'[t].env.success
                      /\ ~HasEvent(tasks'[t].log, "runner")
          /\ (tasks[t].pc = "idle" /\ tasks'[t].op.name = "get_default_org") =>
                /\ tasks'[t].pc = "running"
                /\ tasks'[t].log = <<Event("runner", Undefined)>>
          /\ (Running(t, "get_default_org") /\ tasks'[t] # tasks[t]) =>
                /\ cachedDefaultOrg' = cachedDefaultOrg
                /\ cacheTimestamp' = cacheTimestamp
                /\ (tasks[t].pc = "ran" /\ tasks[t].res.ok) =>
                      tasks'[t].env.targetOrg =
                          IF Truthy(tasks[t].res.value) THEN tasks[t].res.value ELSE Null]_vars

\* while the entry held a fresh value, get_default_org reported the padded
\* value its own call returned and left the entry as it was
C30_Witness ==
    \E t \in Tasks :
        /\ tasks[t].op.name = "get_default_org"
        /\ tasks[t].pc = "done"
        /\ tasks[t].env.targetOrg = Str(<<"s", SP>>)
        /\ cachedDefaultOrg = Str(sandbox1)
        /\ CacheFresh
        /\ \E u \in Tasks :
              /\ tasks[u].op.name = "set_default_org"
              /\ tasks[u].pc = "done"
              /\ tasks[u].env = Failure("runnerError")

====
